---- MODULE Spec2Model ----
(***************************************************************************)
(* Model of the parsec scheduler (ScheduleAction): database set-up, the    *)
(* readiness barrier run as an errgroup, and the round-robin               *)
(* provide/retrieve loop with one errgroup of retrieval tasks per round.   *)
(* The agent has two specifications of its own: SpecRetrieve is one        *)
(* request through Server.retrieve and Client.Retrieve, SpecServer is the   *)
(* life of one Server: ListenAndServe, its heartbeat goroutine, Shutdown.  *)
(***************************************************************************)
EXTENDS Bags, FiniteSets, Integers, Sequences, TLC

\* Largest fleet (len(nodes)) explored.
MaxFleet == 3
\* Largest number of contents generated (rounds started) in one run.
MaxRounds == 3

\* Largest reading of the agent's monotonic clock while it serves a request.
MaxElapsed == 2

\* Largest number of ticks the heartbeat ticker delivers.
MaxTicks == 2

\* Index space of nodes / dbNodes, and of the retrieval loop variable i.
Slots == 0..(MaxFleet - 1)
\* A nil *models.Node / *models.Run (database ids start at 1).
Nil == 0

VARIABLES
    dryRun,        \* c.Bool("dry-run")
    fleetSize,     \* len(nodes)
    pc,            \* position of ScheduleAction
    result,        \* how ScheduleAction ended ("running" while it has not)
    dbc,           \* TRUE iff dbc # nil
    dbRun,         \* dbRun.ID, Nil while unset
    ctxDone,       \* c.Context is done
    readyI,        \* loop variable of the readiness spawn loop
    rtask,         \* state of the readiness task of each node
    readyErr,      \* first error recorded by the readiness errgroup
    readyCancel,   \* the readiness errCtx was cancelled (deadline, error, cancel())
    dbNodes,       \* dbNodes[i].ID, Nil while dbNodes[i] == nil
    nextNodeID,    \* next id the database hands out for a node
    rnode,         \* dbNode.ID held by the readiness task of each node, Nil before
    dbNodesLk,     \* dbNodesLk: 0 when free, i + 1 while the task of node i holds it
    provNode,      \* the node index that is currently providing
    round,         \* number of completed rounds
    content,       \* content id of the current round (0 before the first)
    provState,     \* Provide call of the current round
    retrI,         \* loop variable i of the retrieval spawn loop
    tnode,         \* retrNode captured by the retrieval task spawned at i
    ttask,         \* state of the retrieval task spawned at i
    tresp,         \* retrieval response held by the task spawned at i
    tanswer,       \* what the agent answered to the task spawned at i
    retrErr,       \* first error recorded by the round's errgroup
    retrCancel,    \* the round's errCtx was cancelled by the errgroup
    provCalls,     \* Provide calls issued to each node in the current round
    retrCalls,     \* Retrieve calls issued to each node in the current round
    records,       \* bag of the records stored for the current round's content
    nProvides,     \* rows of the provides table
    nRetrievals,   \* rows of the retrievals table
    dbCalls,       \* number of calls made on the database client
    cause,         \* the failure outside persistence that ended the run
    hpc,           \* position of Server.retrieve / Client.Retrieve for one request
    hRouting,      \* rr.Routing of the request
    hCid,          \* the content id asked for
    hCtxDone,      \* r.Context() of the request is done
    hClock,        \* the agent's monotonic clock
    hStart,        \* start := time.Now()
    hWaited,       \* clock ticks that passed while the lookup was in flight
    hLookup,       \* what the indexer lookup returned ("none" before)
    hLookupErr,    \* err.Error() of a failed indexer lookup
    hProvider,     \* provider.ID received from FindProvidersAsync ("" is the empty id)
    hResp,         \* resp
    hStatus,       \* status line sent to the client, 0 while none was sent
    hBody,         \* what the client can read as body
    hConns,        \* peers the host holds a connection to
    hPeerstore,    \* peers the host's peerstore knows
    hAddrs,        \* peers the host's address book holds addresses of
    hEnv,          \* connections, peerstore and addresses as the lookup left them
    hCalls,        \* ClosePeer / RemovePeer / ClearAddrs calls made by the handler
    cRet,          \* what Client.Retrieve returned ("none" before)
    cResp,         \* the response Client.Retrieve returned
    lsPc,          \* position of Server.ListenAndServe
    lsCtxDone,     \* the context given to ListenAndServe is done
    server,        \* TRUE iff s.server # nil
    serverShut,    \* s.server.Shutdown was called on the http server
    doneCh,        \* TRUE iff s.done is closed
    cancelled,     \* s.cancel() was called
    hbPc,          \* position of the heartbeat goroutine
    tickReady,     \* ticker.C holds a tick
    ticks,         \* ticks delivered so far
    hbCalls,       \* UpdateHeartbeat calls issued
    hbLate,        \* an UpdateHeartbeat call was issued with s.done closed or ctx done
    hbAfterOffline,\* an UpdateHeartbeat call was issued after UpdateOfflineSince
    sdPc,          \* position of Server.Shutdown
    sdCtxDone,     \* the context given to Shutdown is done
    task1,         \* errgroup task stopping the http server
    task2,         \* errgroup task closing the p2p host
    sdRet,         \* value of the return statement Shutdown executed
    sdResult,      \* what Shutdown's caller received ("none" before)
    offlineCalls,  \* UpdateOfflineSince calls issued
    offlineFailed  \* the UpdateOfflineSince call returned an error

vars == <<dryRun, fleetSize, pc, result, dbc, dbRun, ctxDone, readyI, rtask,
          readyErr, readyCancel, dbNodes, nextNodeID, rnode, dbNodesLk, provNode, round,
          content, provState, retrI, tnode, ttask, tresp, tanswer, retrErr,
          retrCancel, provCalls, retrCalls, records, nProvides, nRetrievals,
          dbCalls, cause,
          hpc, hRouting, hCid, hCtxDone, hClock, hStart, hWaited, hLookup,
          hLookupErr, hProvider, hResp, hStatus, hBody, hConns, hPeerstore,
          hAddrs, hEnv, hCalls, cRet, cResp,
          lsPc, lsCtxDone, server, serverShut, doneCh, cancelled, hbPc, tickReady,
          ticks, hbCalls, hbLate, hbAfterOffline, sdPc, sdCtxDone, task1, task2,
          sdRet, sdResult, offlineCalls, offlineFailed>>

\* The agent serving one retrieval request.
handlerVars == <<hpc, hRouting, hCid, hCtxDone, hClock, hStart, hWaited, hLookup,
                 hLookupErr, hProvider, hResp, hStatus, hBody, hConns, hPeerstore,
                 hAddrs, hEnv, hCalls, cRet, cResp>>
\* The life of one Server.
serverVars == <<lsPc, lsCtxDone, server, serverShut, doneCh, cancelled, hbPc, tickReady,
                ticks, hbCalls, hbLate, hbAfterOffline, sdPc, sdCtxDone, task1, task2,
                sdRet, sdResult, offlineCalls, offlineFailed>>
agentVars == <<handlerVars, serverVars>>

setupVars == <<dryRun, fleetSize, agentVars>>
readyVars == <<readyI, rtask, readyErr, readyCancel, dbNodes, nextNodeID, rnode, dbNodesLk>>
roundVars == <<provNode, round, content, provState, provCalls>>
retrVars  == <<retrI, tnode, ttask, tresp, tanswer, retrErr, retrCancel, retrCalls>>
dbVars    == <<records, nProvides, nRetrievals>>

Agents == 0..(fleetSize - 1)
NoResp == [cid |-> 0, error |-> ""]

\* RetrievalResponse{}: the zero value of the response struct.
NoAnswer == [cid |-> 0, duration |-> 0, error |-> ""]
NoPeers == [conns |-> {}, peerstore |-> {}, addrs |-> {}]

\* No request has reached the agent.
HandlerIdle ==
    /\ hpc = "idle"
    /\ hRouting = "DHT"
    /\ hCid = 0
    /\ hCtxDone = FALSE
    /\ hClock = 0
    /\ hStart = 0
    /\ hWaited = 0
    /\ hLookup = "none"
    /\ hLookupErr = ""
    /\ hProvider = ""
    /\ hResp = NoAnswer
    /\ hStatus = 0
    /\ hBody = "none"
    /\ hConns = {}
    /\ hPeerstore = {}
    /\ hAddrs = {}
    /\ hEnv = NoPeers
    /\ hCalls = {}
    /\ cRet = "none"
    /\ cResp = NoAnswer

\* The Server as NewServer returns it: done: make(chan struct{}), server nil.
ServerConstructed ==
    /\ lsPc = "idle"
    /\ lsCtxDone = FALSE
    /\ server = FALSE
    /\ serverShut = FALSE
    /\ doneCh = FALSE
    /\ cancelled = FALSE
    /\ hbPc = "none"
    /\ tickReady = FALSE
    /\ ticks = 0
    /\ hbCalls = 0
    /\ hbLate = FALSE
    /\ hbAfterOffline = FALSE
    /\ sdPc = "idle"
    /\ sdCtxDone = FALSE
    /\ task1 = "none"
    /\ task2 = "none"
    /\ sdRet = "none"
    /\ sdResult = "none"
    /\ offlineCalls = 0
    /\ offlineFailed = FALSE

Init ==
    /\ dryRun \in BOOLEAN
    /\ fleetSize \in 1..MaxFleet
    /\ HandlerIdle
    /\ ServerConstructed
    /\ pc = "initdb"
    /\ result = "running"
    /\ dbc = FALSE
    /\ dbRun = Nil
    /\ ctxDone = FALSE
    /\ readyI = 0
    /\ rtask = [i \in Slots |-> "none"]
    /\ readyErr = "none"
    /\ readyCancel = FALSE
    /\ dbNodes = [i \in Slots |-> Nil]
    /\ nextNodeID = 1
    /\ rnode = [i \in Slots |-> Nil]
    /\ dbNodesLk = 0
    /\ provNode = 0
    /\ round = 0
    /\ content = 0
    /\ provState = "none"
    /\ retrI = 0
    /\ tnode = [i \in Slots |-> 0]
    /\ ttask = [i \in Slots |-> "none"]
    /\ tresp = [i \in Slots |-> NoResp]
    /\ tanswer = [i \in Slots |-> "none"]
    /\ retrErr = "none"
    /\ retrCancel = FALSE
    /\ provCalls = [a \in Slots |-> 0]
    /\ retrCalls = [a \in Slots |-> 0]
    /\ records = EmptyBag
    /\ nProvides = 0
    /\ nRetrievals = 0
    /\ dbCalls = 0
    /\ cause = "none"

\* ScheduleAction returns err (or faults, for "panic").
Return(r, why) ==
    /\ pc' = "done"
    /\ result' = r
    /\ cause' = IF cause = "none" THEN why ELSE cause

\* ---- database set-up (lines 253-273) ----
\* A database call or an HTTP request made under a context that is already
\* done fails; one made under a live context may succeed or fail.

DryRunSkipsInit_Ignored(dry) == FALSE
\* if !c.Bool("dry-run") { dbc, err = db.InitDBClient(...) }
DryRunSkipsInit(dry) == dry

InitDBClient ==
    /\ pc = "initdb"
    /\ IF DryRunSkipsInit(dryRun)
       THEN /\ pc' = "buildinfo"
            /\ UNCHANGED <<result, dbc, dbCalls, cause>>
       ELSE /\ dbCalls' = dbCalls + 1
            /\ \E ok \in BOOLEAN :
                IF ok
                THEN /\ ~ctxDone
                     /\ dbc' = TRUE
                     /\ pc' = "buildinfo"
                     /\ UNCHANGED <<result, cause>>
                ELSE /\ Return("init db client", "db")
                     /\ UNCHANGED dbc
    /\ UNCHANGED <<setupVars, dbRun, ctxDone, readyVars, roundVars, retrVars, dbVars>>

ReadBuildInfo ==
    /\ pc = "buildinfo"
    /\ \E ok \in BOOLEAN :
        IF ok
        THEN /\ pc' = "initrun"
             /\ UNCHANGED <<result, cause>>
        ELSE Return("read build info", "buildinfo")
    /\ UNCHANGED <<setupVars, dbc, dbRun, ctxDone, readyVars, roundVars, retrVars,
                   dbVars, dbCalls>>

InitRun ==
    /\ pc = "initrun"
    /\ IF dbc
       THEN /\ dbCalls' = dbCalls + 1
            /\ \E ok \in BOOLEAN :
                IF ok
                THEN /\ ~ctxDone
                     /\ dbRun' = 1
                     /\ pc' = "readiness"
                     /\ UNCHANGED <<result, cause>>
                ELSE /\ Return("init run", "db")
                     /\ UNCHANGED dbRun
       ELSE /\ pc' = "readiness"
            /\ UNCHANGED <<result, dbRun, dbCalls, cause>>
    /\ UNCHANGED <<setupVars, dbc, ctxDone, readyVars, roundVars, retrVars, dbVars>>

\* The top-level context ends (shutdown signal or overall timeout).
Cancel ==
    /\ pc # "done"
    /\ ~ctxDone
    /\ ctxDone' = TRUE
    /\ UNCHANGED <<setupVars, pc, result, dbc, dbRun, readyVars, roundVars, retrVars,
                   dbVars, dbCalls, cause>>

\* ---- readiness barrier (lines 277-311) ----

\* errCtx of the readiness errgroup: child of c.Context with a 20 minute deadline.
ReadyCtxDone == ctxDone \/ readyCancel

\* errgroup: the first task error is kept and cancels the group's context.
ReadyTaskFails(i, err) ==
    /\ rtask' = [rtask EXCEPT ![i] = "failed"]
    /\ readyErr' = IF readyErr = "none" THEN err ELSE readyErr
    /\ readyCancel' = TRUE

\* for i, n := range nodes { errg.Go(...) }
ReadySpawn ==
    /\ pc = "readiness"
    /\ readyI < fleetSize
    /\ rtask' = [rtask EXCEPT ![readyI] = "waitapi"]
    /\ readyI' = readyI + 1
    /\ UNCHANGED <<setupVars, pc, result, dbc, dbRun, ctxDone, readyErr, readyCancel,
                   dbNodes, nextNodeID, rnode, dbNodesLk, roundVars, retrVars, dbVars,
                   dbCalls, cause>>

\* context.WithTimeout(c.Context, 20*time.Minute) expires.
ReadyDeadline ==
    /\ pc = "readiness"
    /\ ~readyCancel
    /\ readyCancel' = TRUE
    /\ UNCHANGED <<setupVars, pc, result, dbc, dbRun, ctxDone, readyI, rtask, readyErr,
                   dbNodes, nextNodeID, rnode, dbNodesLk, roundVars, retrVars, dbVars,
                   dbCalls, cause>>

\* info, err := n2.WaitForAPI(errCtx); success needs a context that is still live.
WaitForAPI(i) ==
    /\ pc = "readiness"
    /\ rtask[i] = "waitapi"
    /\ \E ok \in BOOLEAN :
        IF ok
        THEN /\ ~ReadyCtxDone
             /\ rtask' = [rtask EXCEPT ![i] = IF dbc THEN "insertnode" ELSE "ok"]
             /\ UNCHANGED <<readyErr, readyCancel, cause>>
        ELSE /\ ReadyTaskFails(i, "wait for api")
             /\ cause' = IF cause = "none" THEN "readiness" ELSE cause
    /\ UNCHANGED <<setupVars, pc, result, dbc, dbRun, ctxDone, readyI, dbNodes,
                   nextNodeID, rnode, dbNodesLk, roundVars, retrVars, dbVars, dbCalls>>

\* dbNode, err := dbc.InsertNode(errCtx, ...): the task holds the node the
\* database created for its agent.
InsertNode(i) ==
    /\ pc = "readiness"
    /\ rtask[i] = "insertnode"
    /\ dbCalls' = dbCalls + 1
    /\ \E ok \in BOOLEAN :
        IF ok
        THEN /\ ~ReadyCtxDone
             /\ rnode' = [rnode EXCEPT ![i] = nextNodeID]
             /\ nextNodeID' = nextNodeID + 1
             /\ rtask' = [rtask EXCEPT ![i] = "lock"]
             /\ UNCHANGED <<readyErr, readyCancel, cause>>
        ELSE /\ ReadyTaskFails(i, "insert db node")
             /\ cause' = IF cause = "none" THEN "db" ELSE cause
             /\ UNCHANGED <<rnode, nextNodeID>>
    /\ UNCHANGED <<setupVars, pc, result, dbc, dbRun, ctxDone, readyI, dbNodes,
                   dbNodesLk, roundVars, retrVars, dbVars>>

\* dbNodesLk.Lock()
NodeLock(i) ==
    /\ pc = "readiness"
    /\ rtask[i] = "lock"
    /\ dbNodesLk = 0
    /\ dbNodesLk' = i + 1
    /\ rtask' = [rtask EXCEPT ![i] = "locked"]
    /\ UNCHANGED <<setupVars, pc, result, dbc, dbRun, ctxDone, readyI, readyErr,
                   readyCancel, dbNodes, nextNodeID, rnode, roundVars, retrVars,
                   dbVars, dbCalls, cause>>

StoreSlot_LoopVariable(i) == IF readyI < fleetSize THEN readyI ELSE fleetSize - 1
\* i2 := i; ... dbNodes[i2]: the index the task captured when it was spawned.
StoreSlot(i) == i

\* dbNodes[i2] = dbNode
NodeStore(i) ==
    /\ pc = "readiness"
    /\ rtask[i] = "locked"
    /\ dbNodes' = [dbNodes EXCEPT ![StoreSlot(i)] = rnode[i]]
    /\ rtask' = [rtask EXCEPT ![i] = "stored"]
    /\ UNCHANGED <<setupVars, pc, result, dbc, dbRun, ctxDone, readyI, readyErr,
                   readyCancel, nextNodeID, rnode, dbNodesLk, roundVars, retrVars,
                   dbVars, dbCalls, cause>>

\* dbNodesLk.Unlock(); return nil
NodeUnlock(i) ==
    /\ pc = "readiness"
    /\ rtask[i] = "stored"
    /\ dbNodesLk' = 0
    /\ rtask' = [rtask EXCEPT ![i] = "ok"]
    /\ UNCHANGED <<setupVars, pc, result, dbc, dbRun, ctxDone, readyI, readyErr,
                   readyCancel, dbNodes, nextNodeID, rnode, roundVars, retrVars,
                   dbVars, dbCalls, cause>>

BarrierPassed_Ignored(err) == TRUE
\* if err := errg.Wait(); err != nil { cancel(); return ... }
BarrierPassed(err) == err = "none"

\* errg.Wait() returns once every task has returned; then cancel().
ReadyWait ==
    /\ pc = "readiness"
    /\ readyI = fleetSize
    /\ \A i \in Agents : rtask[i] \in {"ok", "failed"}
    /\ readyCancel' = TRUE
    /\ IF BarrierPassed(readyErr)
       THEN /\ pc' = "looptop"
            /\ provNode' = 0
            /\ UNCHANGED <<result, cause>>
       ELSE /\ Return("waiting for parsec node APIs", "readiness")
            /\ UNCHANGED provNode
    /\ UNCHANGED <<setupVars, dbc, dbRun, ctxDone, readyI, rtask, readyErr, dbNodes,
                   nextNodeID, rnode, dbNodesLk, round, content, provState, provCalls,
                   retrVars, dbVars, dbCalls>>

\* ---- main loop (lines 313-371) ----

CancelObserved_Never(done) == FALSE
\* case <-c.Context.Done(): taken whenever the context is done, default otherwise.
CancelObserved(done) == done

\* select { case <-c.Context.Done(): return c.Context.Err(); default: }
LoopTop ==
    /\ pc = "looptop"
    /\ IF CancelObserved(ctxDone)
       THEN Return("context canceled", "cancel")
       ELSE /\ pc' = "content"
            /\ UNCHANGED <<result, cause>>
    /\ UNCHANGED <<setupVars, dbc, dbRun, ctxDone, readyVars, roundVars, retrVars,
                   dbVars, dbCalls>>

\* content, err := util.NewRandomContent(): a content id no earlier round used.
NewRandomContent ==
    /\ pc = "content"
    /\ content < MaxRounds
    /\ \E ok \in BOOLEAN :
        IF ok
        THEN /\ content' = content + 1
             /\ pc' = "provide"
             /\ UNCHANGED <<result, cause>>
        ELSE /\ Return("new random content", "content")
             /\ UNCHANGED content
    /\ UNCHANGED <<setupVars, dbc, dbRun, ctxDone, readyVars, provNode, round,
                   provState, provCalls, retrVars, dbVars, dbCalls>>

\* The request of nodes[provNode].Provide(c.Context, content) goes out; a request
\* under a context that is already done is refused by the HTTP client.
ProvideCallBody(next) ==
    /\ pc = "provide"
    /\ provCalls' = [provCalls EXCEPT ![provNode] = @ + 1]
    /\ provState' = IF ctxDone THEN "refused" ELSE "inflight"
    /\ pc' = next
    /\ UNCHANGED <<setupVars, result, dbc, dbRun, ctxDone, readyVars, provNode, round,
                   content, retrVars, dbVars, dbCalls, cause>>

ProvideCall_NoWait == ProvideCallBody("retrieve")
\* provide, err := nodes[provNode].Provide(c.Context, content) blocks for the response.
ProvideCall == ProvideCallBody("providewait")

ProvideOutcomes == {"ok", "routing error", "transport error"}

ProvideFailed_Never(out) == FALSE
\* provide, err := ...Provide(...); if err != nil { ... return }: only a transport
\* error is an err, a routing failure travels inside the response.
ProvideFailed(out) == out = "transport error"

\* First statement of the loop's retrieval part: a new errgroup and i := 0.
StartRetrievals ==
    /\ retrI' = 0
    /\ ttask' = [i \in Slots |-> "none"]
    /\ tnode' = [i \in Slots |-> 0]
    /\ tresp' = [i \in Slots |-> NoResp]
    /\ tanswer' = [i \in Slots |-> "none"]
    /\ retrErr' = "none"
    /\ retrCancel' = FALSE

\* The Provide call returns. On err != nil the warning reads dbNodes[provNode].ID
\* (a nil dereference when dbNodes[provNode] was never set) and the error is returned.
ProvideReturn ==
    /\ pc = "providewait"
    /\ \E out \in ProvideOutcomes :
        /\ provState = "refused" => out = "transport error"
        /\ provState' = out
        /\ IF ProvideFailed(out)
           THEN /\ IF dbNodes[provNode] = Nil
                   THEN Return("panic", "provide")
                   ELSE Return("provide content", "provide")
                /\ UNCHANGED <<retrI, tnode, ttask, tresp, tanswer, retrErr, retrCancel>>
           ELSE /\ IF dbc
                   THEN /\ pc' = "insertprovide"
                        /\ UNCHANGED <<retrI, tnode, ttask, tresp, tanswer, retrErr, retrCancel>>
                   ELSE /\ pc' = "retrieve"
                        /\ StartRetrievals
                /\ UNCHANGED <<result, cause>>
    /\ UNCHANGED <<setupVars, dbc, dbRun, ctxDone, readyVars, provNode, round, content,
                   provCalls, retrCalls, dbVars, dbCalls>>

\* The record a successful dbc.InsertProvide(c.Context, dbNodes[provNode].ID, provide) stores.
ProvideRecord ==
    [kind |-> "provide", node |-> dbNodes[provNode], cid |-> content,
     error |-> IF provState = "ok" THEN "" ELSE provState]

InsertProvide ==
    /\ pc = "insertprovide"
    /\ dbCalls' = dbCalls + 1
    /\ \E ok \in BOOLEAN :
        IF ok
        THEN /\ ~ctxDone
             /\ records' = records (+) SetToBag({ProvideRecord})
             /\ nProvides' = nProvides + 1
             /\ UNCHANGED nRetrievals
             /\ pc' = "retrieve"
             /\ StartRetrievals
             /\ UNCHANGED <<result, cause>>
        ELSE /\ Return("insert provide", "db")
             /\ UNCHANGED <<dbVars, retrI, tnode, ttask, tresp, tanswer, retrErr, retrCancel>>
    /\ UNCHANGED <<setupVars, dbc, dbRun, ctxDone, readyVars, roundVars, retrCalls>>

\* ---- retrieval tasks of one round (lines 339-371) ----

\* errCtx of the round's errgroup: child of c.Context.
RetrCtxDone == ctxDone \/ retrCancel

RetrNode_OffByOne(p, i, n) == (p + i) % n
\* retrNode := (provNode + i + 1) % len(nodes)
RetrNode(p, i, n) == (p + i + 1) % n

\* for i := 0; i < len(nodes)-1; i++ { retrNode := ...; errg.Go(...) }
RetrSpawn ==
    /\ pc = "retrieve"
    /\ retrI < fleetSize - 1
    /\ tnode' = [tnode EXCEPT ![retrI] = RetrNode(provNode, retrI, fleetSize)]
    /\ ttask' = [ttask EXCEPT ![retrI] = "spawned"]
    /\ retrI' = retrI + 1
    /\ UNCHANGED <<setupVars, pc, result, dbc, dbRun, ctxDone, readyVars, roundVars,
                   tresp, tanswer, retrErr, retrCancel, retrCalls, dbVars, dbCalls,
                   cause>>

\* errgroup: the first task error is kept and cancels the group's context.
RetrTaskFails(i, err) ==
    /\ ttask' = [ttask EXCEPT ![i] = "failed"]
    /\ retrErr' = IF retrErr = "none" THEN err ELSE retrErr
    /\ retrCancel' = TRUE

\* The request of node.Retrieve(errCtx, content.CID, 1) goes out.
RetrieveCall(i) ==
    /\ ttask[i] = "spawned"
    /\ ttask' = [ttask EXCEPT ![i] = IF RetrCtxDone THEN "refused" ELSE "calling"]
    /\ retrCalls' = [retrCalls EXCEPT ![tnode[i]] = @ + 1]
    /\ UNCHANGED <<setupVars, pc, result, dbc, dbRun, ctxDone, readyVars, roundVars,
                   retrI, tnode, tresp, tanswer, retrErr, retrCancel, dbVars, dbCalls,
                   cause>>

RetrieveOutcomes == {"ok", "not found", "transport error"}

\* Server.retrieve answers with the content id it was asked for and the outcome
\* in the Error field; Client.Retrieve hands that response back with a nil error.
RetrievalResponse(cid, out) == [cid |-> cid, error |-> IF out = "ok" THEN "" ELSE out]

RetrieveFailed_OnErrorField(out) == out # "ok"
\* Client.Retrieve returns a non-nil err only when the round trip or the decoding
\* of the body fails, whatever the Error field of the decoded response says.
RetrieveFailed(out) == out = "transport error"

\* retrieval, err := node.Retrieve(...) returns.
RetrieveReturn(i) ==
    /\ ttask[i] \in {"calling", "refused"}
    /\ \E out \in RetrieveOutcomes :
        /\ ttask[i] = "refused" => out = "transport error"
        /\ tanswer' = [tanswer EXCEPT ![i] = IF out = "transport error" THEN "none" ELSE out]
        /\ IF RetrieveFailed(out)
           THEN /\ RetrTaskFails(i, "api retrieve")
                /\ cause' = IF cause = "none" THEN "retrieve" ELSE cause
                /\ UNCHANGED tresp
           ELSE /\ tresp' = [tresp EXCEPT ![i] = RetrievalResponse(content, out)]
                /\ ttask' = [ttask EXCEPT ![i] = IF dbc THEN "inserting" ELSE "done"]
                /\ UNCHANGED <<retrErr, retrCancel, cause>>
    /\ UNCHANGED <<setupVars, pc, result, dbc, dbRun, ctxDone, readyVars, roundVars,
                   retrI, tnode, retrCalls, dbVars, dbCalls>>

\* Client.Retrieve binds the request to its context (req.WithContext(ctx)), a
\* child of c.Context: when c.Context ends while the request is in flight,
\* client.Do gives up and the task returns the error.
RetrieveInterrupted(i) ==
    /\ ttask[i] = "calling"
    /\ ctxDone
    /\ RetrTaskFails(i, "api retrieve")
    /\ cause' = IF cause = "none" THEN "retrieve interrupted" ELSE cause
    /\ UNCHANGED <<setupVars, pc, result, dbc, dbRun, ctxDone, readyVars, roundVars,
                   retrI, tnode, tresp, tanswer, retrCalls, dbVars, dbCalls>>

RetrievalNodeID_OfProvider(i) == dbNodes[provNode]
\* dbNode := dbNodes[retrNode]; ... dbNode.ID
RetrievalNodeID(i) == dbNodes[tnode[i]]

\* The record a successful dbc.InsertRetrieval(errCtx, dbNode.ID, retrieval) stores.
RetrievalRecord(i) ==
    [kind |-> "retrieval", node |-> RetrievalNodeID(i), cid |-> tresp[i].cid,
     error |-> tresp[i].error]

InsertRetrieval(i) ==
    /\ ttask[i] = "inserting"
    /\ dbCalls' = dbCalls + 1
    /\ \E ok \in BOOLEAN :
        IF ok
        THEN /\ ~RetrCtxDone
             /\ records' = records (+) SetToBag({RetrievalRecord(i)})
             /\ nRetrievals' = nRetrievals + 1
             /\ UNCHANGED nProvides
             /\ ttask' = [ttask EXCEPT ![i] = "done"]
             /\ UNCHANGED <<retrErr, retrCancel, cause>>
        ELSE /\ RetrTaskFails(i, "insert retrieve")
             /\ cause' = IF cause = "none" THEN "db" ELSE cause
             /\ UNCHANGED dbVars
    /\ UNCHANGED <<setupVars, pc, result, dbc, dbRun, ctxDone, readyVars, roundVars,
                   retrI, tnode, tresp, tanswer, retrCalls>>

TasksReturned_FirstOnly == \E i \in Slots : ttask[i] \in {"done", "failed"}
\* errg.Wait() blocks until every function passed to errg.Go has returned.
TasksReturned == \A i \in 0..(fleetSize - 2) : ttask[i] \in {"done", "failed"}

RoundSucceeded_Always(err) == TRUE
\* if err = errg.Wait(); err != nil { return ... }
RoundSucceeded(err) == err = "none"

\* if err = errg.Wait(); err != nil { return ... }: blocks until every task returned.
RetrWait ==
    /\ pc = "retrieve"
    /\ retrI = fleetSize - 1
    /\ TasksReturned
    /\ retrCancel' = TRUE
    /\ IF RoundSucceeded(retrErr)
       THEN /\ pc' = "advance"
            /\ UNCHANGED <<result, cause>>
       ELSE Return("waitgroup retrieve", "retrieve")
    /\ UNCHANGED <<setupVars, dbc, dbRun, ctxDone, readyVars, roundVars, retrI, tnode,
                   ttask, tresp, tanswer, retrErr, retrCalls, dbVars, dbCalls>>

\* The loop body's locals (provide, errg, the tasks' variables) go out of scope
\* and the round's bookkeeping is closed.
EndOfIteration ==
    /\ provState' = "none"
    /\ StartRetrievals
    /\ provCalls' = [a \in Slots |-> 0]
    /\ retrCalls' = [a \in Slots |-> 0]
    /\ records' = EmptyBag

NextProvNode_SkipOne(p, n) == (p + 2) % n
\* provNode += 1; provNode %= len(nodes)
NextProvNode(p, n) == (p + 1) % n

Advance ==
    /\ pc = "advance"
    /\ provNode' = NextProvNode(provNode, fleetSize)
    /\ round' = round + 1
    /\ pc' = "looptop"
    /\ EndOfIteration
    /\ UNCHANGED <<setupVars, result, dbc, dbRun, ctxDone, readyVars, content,
                   nProvides, nRetrievals, dbCalls, cause>>

\* ---- properties ----

InMainLoop ==
    pc \in {"looptop", "content", "provide", "providewait", "insertprovide",
            "retrieve", "advance"}

\* A round is under way: its counters describe the round of provNode.
RoundInProgress ==
    pc \in {"provide", "providewait", "insertprovide", "retrieve", "advance"}

AnyCall == \E a \in Slots : provCalls[a] > 0 \/ retrCalls[a] > 0

\* C1: the node that provides in round N (N completed rounds so far) is
\* N mod fleetSize; the index starts at 0, and it changes only when a round
\* completes, by exactly one modulo fleetSize.
C1_RoundRobin ==
    /\ [](/\ provNode = round % fleetSize
          /\ RoundInProgress =>
                \A a \in Slots : provCalls[a] > 0 => a = round % fleetSize)
    /\ [][/\ provNode' # provNode =>
                /\ pc = "advance"
                /\ round' = round + 1
                /\ provNode' = (provNode + 1) % fleetSize
          /\ round' # round => round' = round + 1 /\ pc = "advance"]_vars

C1_Witness ==
    /\ fleetSize >= 2
    /\ round = fleetSize
    /\ provNode = 0
    /\ pc = "looptop"

Others == Agents \ {provNode}

\* C2: when a round with at least two nodes has completed, Provide was invoked
\* exactly once, on the node at the provider index only, and Retrieve exactly
\* once on each other node and never on the provider; the nodes the retrieval
\* loop picks are all indices but provNode, without repetition.
C2_OneProvideOthersRetrieve ==
    (pc = "advance" /\ fleetSize >= 2) =>
        /\ provCalls[provNode] = 1
        /\ retrCalls[provNode] = 0
        /\ \A a \in Slots \ {provNode} : provCalls[a] = 0
        /\ \A a \in Others : retrCalls[a] = 1
        /\ \A a \in Slots \ Agents : retrCalls[a] = 0
        /\ {tnode[i] : i \in 0..(fleetSize - 2)} = Others
        /\ \A i, j \in 0..(fleetSize - 2) : tnode[i] = tnode[j] => i = j

C2_Witness ==
    /\ pc = "advance"
    /\ fleetSize = MaxFleet
    /\ provNode = fleetSize - 1
    /\ \A a \in Others : retrCalls[a] = 1

RecordsOf(kind, node) ==
    {r \in BagToSet(records) : r.kind = kind /\ r.node = node}

CopiesOf(kind, node) ==
    LET rs == RecordsOf(kind, node)
    IN  IF rs = {} THEN 0
        ELSE IF Cardinality(rs) = 1 THEN CopiesIn(CHOOSE r \in rs : TRUE, records)
        ELSE 2

\* C3: with persistence enabled and at least two nodes, a completed round has
\* stored exactly one Provide Record, attributed to the registry node of the
\* provider index, and exactly fleetSize-1 Retrieval Records, one per other
\* node, each attributed to the registry node at the index of the node that
\* retrieved and each carrying the round's content id.
C3_RecordsPerRound ==
    (pc = "advance" /\ ~dryRun /\ fleetSize >= 2) =>
        /\ BagCardinality(records) = fleetSize
        /\ nProvides = round + 1
        /\ nRetrievals = (round + 1) * (fleetSize - 1)
        /\ \A a \in Agents : dbNodes[a] # Nil
        /\ \A a, b \in Agents : dbNodes[a] = dbNodes[b] => a = b
        /\ CopiesOf("provide", dbNodes[provNode]) = 1
        /\ CopiesOf("retrieval", dbNodes[provNode]) = 0
        /\ \A a \in Others :
            /\ CopiesOf("retrieval", dbNodes[a]) = 1
            /\ CopiesOf("provide", dbNodes[a]) = 0
        /\ \A r \in BagToSet(records) : r.cid = content

C3_Witness ==
    /\ pc = "advance"
    /\ ~dryRun
    /\ fleetSize = MaxFleet
    /\ round = 1
    /\ \E a \in Agents : dbNodes[a] # a + 1
    /\ BagCardinality(records) = fleetSize

\* C4: no Retrieve call of a round is issued, and no retrieval task exists,
\* before the Provide call of that round has returned to the coordinator.
C4_ProvideBeforeRetrievals ==
    /\ (AnyCall /\ \E a \in Slots : retrCalls[a] > 0) =>
            provState \in {"ok", "routing error"}
    /\ (\E i \in Slots : ttask[i] # "none") => provState \in {"ok", "routing error"}
    /\ provState \in {"inflight", "refused"} =>
            /\ pc = "providewait"
            /\ \A a \in Slots : retrCalls[a] = 0

C4_Witness ==
    /\ provState = "ok"
    /\ \E i, j \in Slots :
        /\ i < j
        /\ ttask[i] = "spawned"
        /\ ttask[j] = "calling"

AllReady == \A a \in Agents : rtask[a] = "ok"
SomeReadyFailed == \E a \in Agents : rtask[a] = "failed"

\* C5: readiness barrier. No Provide or Retrieve call is issued, and the main
\* loop is not entered, unless the readiness task of every node completed
\* successfully. Once a readiness task has failed the shared context is
\* cancelled, no call is ever issued, and ScheduleAction can only return the
\* readiness error, after every task has returned. Once the shared context has
\* ended (deadline, top-level context, first failure) no readiness task that
\* still has a call to make under it succeeds any more (a task past its last
\* call only stores its node) and the barrier lets nothing through.
C5_ReadinessBarrier ==
    /\ []((InMainLoop \/ content > 0 \/ AnyCall) => AllReady)
    /\ [](SomeReadyFailed =>
            /\ readyCancel
            /\ readyErr # "none"
            /\ pc \in {"readiness", "done"}
            /\ content = 0
            /\ ~AnyCall
            /\ pc = "done" =>
                /\ result = "waiting for parsec node APIs"
                /\ \A a \in Agents : rtask[a] \in {"ok", "failed"})
    /\ [][/\ \A a \in Agents :
                (ReadyCtxDone /\ rtask[a] \in {"none", "waitapi", "insertnode"}) =>
                    rtask'[a] \in {rtask[a], "waitapi", "failed"}
          /\ (pc = "readiness" /\ ReadyCtxDone /\ ~AllReady) =>
                pc' \in {"readiness", "done"}]_vars

C5_Witness ==
    /\ pc = "done"
    /\ result = "waiting for parsec node APIs"
    /\ \E a, b, c \in Agents :
        /\ rtask[a] = "ok"
        /\ dbNodes[a] # Nil
        /\ rtask[b] = "failed"
        /\ readyErr = "wait for api"
        /\ rtask[c] = "failed"
        /\ b # c

\* C6: after a transport error of the Provide call of a round the coordinator
\* has terminated abnormally (ScheduleAction returns the "provide content"
\* error, or faults while logging it), no Retrieve call was issued in that
\* round, no Provide or Retrieval Record was stored for it, and no further
\* round starts.
C6_ProvideTransportError ==
    provState = "transport error" =>
        /\ pc = "done"
        /\ result \in {"provide content", "panic"}
        /\ \A a \in Slots : retrCalls[a] = 0
        /\ \A i \in Slots : ttask[i] = "none"
        /\ records = EmptyBag
        /\ nProvides = (IF dryRun THEN 0 ELSE round)
        /\ nRetrievals = (IF dryRun THEN 0 ELSE round * (fleetSize - 1))
        /\ content = round + 1

C6_Witness ==
    /\ provState = "transport error"
    /\ round = 1
    /\ provNode = 1
    /\ ~dryRun
    /\ result = "provide content"

\* C7 (as claimed): a routing-layer failure of Provide, reported in the error
\* field of a successful response, ends the run and no Retrieve call is issued
\* for that round.
C7_RoutingFailureFatal ==
    provState = "routing error" =>
        /\ pc = "done"
        /\ \A a \in Slots : retrCalls[a] = 0

\* C8 (as claimed): a failure of insertNode, insertProvide or insertRetrieval
\* is swallowed, it never is what ScheduleAction returns.
C8_PersistenceSwallowed ==
    pc = "done" =>
        /\ result # "insert provide"
        /\ ~(result = "waiting for parsec node APIs" /\ readyErr = "insert db node")
        /\ ~(result = "waitgroup retrieve" /\ retrErr = "insert retrieve")

\* C9: in dry-run mode no call is ever made on the database client: it is
\* never initialised, there is no run, no node, no record.
C9_DryRunNoPersistence ==
    dryRun =>
        /\ dbCalls = 0
        /\ ~dbc
        /\ dbRun = Nil
        /\ \A a \in Slots : dbNodes[a] = Nil
        /\ records = EmptyBag
        /\ nProvides = 0
        /\ nRetrievals = 0
        /\ \A a \in Slots : rtask[a] # "insertnode"
        /\ \A i \in Slots : ttask[i] # "inserting"
        /\ pc # "insertprovide"

C9_Witness ==
    /\ dryRun
    /\ fleetSize = MaxFleet
    /\ round >= 2
    /\ pc = "retrieve"
    /\ \E i \in Slots : ttask[i] = "done"

\* How a run whose persistence calls all succeed ends on a given failure.
PersistentRunResult(why) ==
    CASE why = "buildinfo" -> "read build info"
      [] why = "readiness" -> "waiting for parsec node APIs"
      [] why = "cancel" -> "context canceled"
      [] why = "content" -> "new random content"
      [] why = "provide" -> "provide content"
      [] why = "retrieve" -> "waitgroup retrieve"
      [] why = "retrieve interrupted" -> "waitgroup retrieve"
      [] OTHER -> "running"

\* C10 (as claimed): leaving persistence failures aside, a run ends the same
\* way on the same failure whether or not it is a dry run, and it returns
\* rather than faulting.
C10_DryRunEquivalent ==
    (pc = "done" /\ cause # "db") =>
        /\ result = PersistentRunResult(cause)
        /\ result # "panic"

\* The reference of C10: the run with persistence ends as PersistentRunResult says.
PersistentRunEndsAsExpected ==
    (pc = "done" /\ cause # "db" /\ ~dryRun) => result = PersistentRunResult(cause)

\* C11: the cancellation signal is looked at before every round. A check that
\* finds it set ends ScheduleAction with the context's error, without
\* generating content or issuing a call; content is only generated, and
\* Provide only issued, by an iteration whose check found the signal unset, so
\* once the signal is set at most the iteration under way goes on.
C11_CancelCheckedBeforeRound ==
    /\ [](result = "context canceled" => (ctxDone /\ pc = "done" /\ ~AnyCall))
    /\ [][/\ (pc = "looptop" /\ ctxDone) =>
                /\ pc' = "done"
                /\ result' = "context canceled"
                /\ content' = content
                /\ provCalls' = provCalls
          /\ content' # content => (pc = "content" /\ pc' = "provide")
          /\ provCalls' # provCalls => (pc = "provide" \/ pc = "advance")
          /\ (pc = "looptop" /\ pc' = "content") => ~ctxDone]_vars

C11_Witness ==
    /\ result = "context canceled"
    /\ round >= 1
    /\ fleetSize >= 2

\* C12 (as claimed): a Retrieve call that is in flight when the top-level
\* signal fires is not given up because of it: no retrieval task returns the
\* call's error, and no round fails, on account of the cancellation.
C12_InFlightCallsNotInterrupted ==
    cause = "retrieve interrupted" =>
        /\ \A i \in Slots : ttask[i] # "failed"
        /\ result # "waitgroup retrieve"

NotFoundResponse == [cid |-> content, error |-> "not found"]

\* C13: a "not found" answer of an agent is a successful response with a
\* non-empty error field; Client.Retrieve hands it back without an error, the
\* task does not fail on it and the round is not aborted by it: without
\* persistence the task is done, with persistence the response is stored as a
\* Retrieval Record of the task's node, and only the insert can fail the task;
\* a round in which every agent answered "not found" goes on to the advance.
C13_NotFoundIsRecorded ==
    \A i \in Slots :
        tanswer[i] = "not found" =>
            /\ tresp[i] = NotFoundResponse
            /\ tresp[i].error # ""
            /\ ttask[i] \in {"inserting", "done", "failed"}
            /\ ~dbc => ttask[i] = "done"
            /\ ttask[i] = "failed" => (dbc /\ retrErr # "none")
            /\ (dbc /\ ttask[i] = "done") =>
                    CopiesIn([kind |-> "retrieval", node |-> dbNodes[tnode[i]],
                              cid |-> content, error |-> "not found"], records) = 1
            /\ (~dbc /\ \A j \in 0..(fleetSize - 2) : tanswer[j] = "not found") =>
                    (retrErr = "none" /\ pc \in {"retrieve", "advance"})

C13_WitnessRecorded ==
    /\ pc = "advance"
    /\ ~dryRun
    /\ fleetSize = MaxFleet
    /\ \A i \in 0..(fleetSize - 2) : tanswer[i] = "not found" /\ ttask[i] = "done"

Running(i) == ttask[i] \in {"spawned", "calling", "refused", "inserting"}

\* C16: a round closes only when every retrieval task of it has returned: no
\* task is running outside the retrieval phase, the provider index changes and
\* the next Provide is issued only with no task running, and a completed round
\* has every one of its tasks done.
C16_RoundClosure ==
    /\ [](/\ pc # "retrieve" => \A i \in Slots : ~Running(i)
          /\ pc = "advance" => \A i \in 0..(fleetSize - 2) : ttask[i] = "done"
          /\ provState \in {"inflight", "refused"} => \A i \in Slots : ttask[i] = "none")
    /\ [][/\ provNode' # provNode => \A i \in Slots : ~Running(i)
          /\ round' # round =>
                \A i \in 0..(fleetSize - 2) : ttask[i] = "done" /\ ttask'[i] = "none"
          /\ provCalls' # provCalls => \A i \in Slots : ~Running(i) /\ ~Running(i)']_vars

C16_Witness ==
    /\ pc = "retrieve"
    /\ round = 1
    /\ retrI = fleetSize - 1
    /\ \E i, j \in Slots : ttask[i] = "done" /\ ttask[j] = "calling"

\* C17: once a retrieval task of a round has failed, the context of its
\* siblings is cancelled and the run can only end with the round's error,
\* after every sibling has returned; the provider index is not advanced and no
\* further round starts, however many siblings succeeded.
C17_RetrievalFailureEndsRun ==
    (\E i \in Slots : ttask[i] = "failed") =>
        /\ retrCancel
        /\ retrErr # "none"
        /\ pc \in {"retrieve", "done"}
        /\ provNode = round % fleetSize
        /\ content = round + 1
        /\ pc = "done" =>
            /\ result = "waitgroup retrieve"
            /\ \A i \in 0..(fleetSize - 2) : ttask[i] \in {"done", "failed"}

C17_Witness ==
    /\ pc = "done"
    /\ result = "waitgroup retrieve"
    /\ retrErr = "api retrieve"
    /\ round = 1
    /\ \E i, j \in Slots : ttask[i] = "failed" /\ tanswer[i] = "none" /\ ttask[j] = "done"

\* C18: the node registry. A slot is written only during readiness, by the
\* task of that slot's agent, while that task holds the registry lock, once
\* (the slot was empty), with the node the database created for that agent
\* after its readiness succeeded. With persistence, after the barrier every
\* slot holds the node of its agent, so every entry the loop reads is set.
C18_NodeRegistry ==
    /\ [](/\ \A a \in Slots : dbNodes[a] # Nil => dbNodes[a] = rnode[a]
          /\ \A a \in Slots : rnode[a] # Nil => rtask[a] \in {"lock", "locked", "stored", "ok"}
          /\ (InMainLoop /\ ~dryRun) => \A a \in Agents : dbNodes[a] # Nil
          /\ \A a \in Slots : rtask[a] \in {"locked", "stored"} <=> dbNodesLk = a + 1)
    /\ [][\A a \in Slots :
            dbNodes'[a] # dbNodes[a] =>
                /\ pc = "readiness"
                /\ ~dryRun
                /\ dbNodesLk = a + 1
                /\ rtask[a] = "locked"
                /\ dbNodes[a] = Nil
                /\ dbNodes'[a] = rnode[a]
                /\ rnode[a] # Nil]_vars

C18_Witness ==
    /\ pc = "advance"
    /\ fleetSize = MaxFleet
    /\ \A a \in Agents : dbNodes[a] = fleetSize - a

Next ==
    \/ InitDBClient
    \/ ReadBuildInfo
    \/ InitRun
    \/ Cancel
    \/ ReadySpawn
    \/ ReadyDeadline
    \/ \E i \in Slots : WaitForAPI(i)
    \/ \E i \in Slots : InsertNode(i)
    \/ \E i \in Slots : NodeLock(i)
    \/ \E i \in Slots : NodeStore(i)
    \/ \E i \in Slots : NodeUnlock(i)
    \/ ReadyWait
    \/ LoopTop
    \/ NewRandomContent
    \/ ProvideCall
    \/ ProvideReturn
    \/ InsertProvide
    \/ RetrSpawn
    \/ \E i \in Slots : RetrieveCall(i)
    \/ \E i \in Slots : RetrieveReturn(i)
    \/ \E i \in Slots : RetrieveInterrupted(i)
    \/ \E i \in Slots : InsertRetrieval(i)
    \/ RetrWait
    \/ Advance

Spec == Init /\ [][Next]_vars

\* ---- the agent's retrieve handler (Server.retrieve, lines 28-104) ----

schedulerVars == <<dryRun, fleetSize, pc, result, dbc, dbRun, ctxDone, readyVars,
                   roundVars, retrVars, dbVars, dbCalls, cause>>
hReqVars    == <<hRouting, hCid>>
hClockVars  == <<hClock, hStart, hWaited>>
hLookupVars == <<hLookup, hLookupErr, hProvider>>
hOutVars    == <<hStatus, hBody>>
hPeerVars   == <<hConns, hPeerstore, hAddrs, hEnv, hCalls>>
cVars       == <<cRet, cResp>>

\* config.RoutingIPNI and config.RoutingDHT.
Routings == {"IPNI", "DHT"}
\* Content ids a request can carry.
Cids == {1, 2}
\* Peers of the network other than the agent itself.
Peers == {"p1", "p2"}
\* peer.ID values a provider record can carry; "" is the empty id.
PeerIDs == Peers \cup {""}

\* One request for the agent; the scheduler has not started.
InitRetrieve ==
    /\ Init
    /\ dryRun
    /\ fleetSize = 1

WriteHeader_Overrides(sent, code) == code
\* net/http: the status line goes out once; a WriteHeader after it is ignored.
WriteHeader(sent, code) == IF sent = 0 THEN code ELSE sent

\* The handler returns after rw.WriteHeader(code).
HandlerRejects(code) ==
    /\ hStatus' = WriteHeader(hStatus, code)
    /\ hpc' = "done"
    /\ UNCHANGED <<hBody, hResp>>

\* Client.Retrieve posts the request {Routing: c.routing} for the content id.
HandlerRequest ==
    /\ hpc = "idle"
    /\ \E r \in Routings, c \in Cids :
        /\ hRouting' = r
        /\ hCid' = c
    /\ hpc' = "read"
    /\ UNCHANGED <<schedulerVars, serverVars, hCtxDone, hClockVars, hLookupVars, hResp, hOutVars,
                   hPeerVars, cVars>>

\* data, err := io.ReadAll(r.Body)
ReadBody ==
    /\ hpc = "read"
    /\ \E ok \in BOOLEAN :
        IF ok THEN hpc' = "unmarshal" /\ UNCHANGED <<hOutVars, hResp>>
              ELSE HandlerRejects(500)
    /\ UNCHANGED <<schedulerVars, serverVars, hReqVars, hCtxDone, hClockVars, hLookupVars, hPeerVars,
                   cVars>>

\* json.Unmarshal(data, &rr)
UnmarshalRequest ==
    /\ hpc = "unmarshal"
    /\ \E ok \in BOOLEAN :
        IF ok THEN hpc' = "decode" /\ UNCHANGED <<hOutVars, hResp>>
              ELSE HandlerRejects(400)
    /\ UNCHANGED <<schedulerVars, serverVars, hReqVars, hCtxDone, hClockVars, hLookupVars, hPeerVars,
                   cVars>>

\* c, err := cid.Decode(...); resp := RetrievalResponse{CID: c.String(), ...}
DecodeCid ==
    /\ hpc = "decode"
    /\ \E ok \in BOOLEAN :
        IF ok THEN /\ hpc' = "start"
                   /\ hResp' = [cid |-> hCid, duration |-> 0, error |-> ""]
                   /\ UNCHANGED hOutVars
              ELSE HandlerRejects(400)
    /\ UNCHANGED <<schedulerVars, serverVars, hReqVars, hCtxDone, hClockVars, hLookupVars, hPeerVars,
                   cVars>>

\* start := time.Now(), then the lookup of the chosen strategy is called.
StartLookup ==
    /\ hpc = "start"
    /\ hStart' = hClock
    /\ hpc' = "lookup"
    /\ UNCHANGED <<schedulerVars, serverVars, hReqVars, hCtxDone, hClock, hWaited, hLookupVars, hResp,
                   hOutVars, hPeerVars, cVars>>

\* Time passes on the agent.
Tick ==
    /\ hpc \in {"start", "lookup", "classify"}
    /\ hClock < MaxElapsed
    /\ hClock' = hClock + 1
    /\ hWaited' = IF hpc = "lookup" THEN hWaited + 1 ELSE hWaited
    /\ UNCHANGED <<schedulerVars, serverVars, hpc, hReqVars, hCtxDone, hStart, hLookupVars, hResp,
                   hOutVars, hPeerVars, cVars>>

\* The caller's deadline ends or the caller gives up: r.Context() is done.
RequestCtxDone ==
    /\ hpc \in {"start", "lookup"}
    /\ ~hCtxDone
    /\ hCtxDone' = TRUE
    /\ UNCHANGED <<schedulerVars, serverVars, hpc, hReqVars, hClockVars, hLookupVars, hResp, hOutVars,
                   hPeerVars, cVars>>

\* The DHT query dials a peer: the host connects to it and learns its addresses.
DHTContact(p) ==
    /\ hpc = "lookup"
    /\ hRouting # "IPNI"
    /\ p \notin hConns
    /\ hConns' = hConns \cup {p}
    /\ hPeerstore' = hPeerstore \cup {p}
    /\ hAddrs' = hAddrs \cup {p}
    /\ hEnv' = [conns |-> hConns', peerstore |-> hPeerstore', addrs |-> hAddrs']
    /\ UNCHANGED <<schedulerVars, serverVars, hpc, hReqVars, hCtxDone, hClockVars, hLookupVars, hResp,
                   hOutVars, hCalls, cVars>>

\* time.Since(start)
Since(start) == hClock - start

\* pr, err := s.host.IndexerLookup(ctx, c); resp.Duration = time.Since(start)
IndexerLookupReturn ==
    /\ hpc = "lookup"
    /\ hRouting = "IPNI"
    /\ \E out \in {"error", "empty", "results"} :
        /\ hLookup' = out
        /\ hLookupErr' = IF out # "error" THEN ""
                         ELSE IF hCtxDone THEN "context deadline exceeded"
                         ELSE "lookup failed"
    /\ hResp' = [hResp EXCEPT !.duration = Since(hStart)]
    /\ hpc' = "classify"
    /\ UNCHANGED <<schedulerVars, serverVars, hReqVars, hCtxDone, hClockVars, hProvider, hOutVars,
                   hPeerVars, cVars>>

IndexerError_EmptyIsSuccess(out, text) == IF out = "error" THEN text ELSE ""
\* if err != nil { resp.Error = err.Error() }
\* else if len(pr.MultihashResults) == 0 { resp.Error = "not found" }
IndexerError(out, text) ==
    IF out = "error" THEN text
    ELSE IF out = "empty" THEN "not found"
    ELSE ""

IndexerClassify ==
    /\ hpc = "classify"
    /\ hRouting = "IPNI"
    /\ hResp' = [hResp EXCEPT !.error = IndexerError(hLookup, hLookupErr)]
    /\ hpc' = "write"
    /\ UNCHANGED <<schedulerVars, serverVars, hReqVars, hCtxDone, hClockVars, hLookupVars, hOutVars,
                   hPeerVars, cVars>>

\* provider := <-s.host.DHT.FindProvidersAsync(ctx, c, 1): a provider record, or
\* the zero value when the channel is closed without one (nothing found, or
\* the context ended).
FindProvidersReturn ==
    /\ hpc = "lookup"
    /\ hRouting # "IPNI"
    /\ \E id \in PeerIDs : hProvider' = id
    /\ hLookup' = "received"
    /\ hResp' = [hResp EXCEPT !.duration = Since(hStart)]
    /\ hpc' = "classify"
    /\ UNCHANGED <<schedulerVars, serverVars, hReqVars, hCtxDone, hClockVars, hLookupErr, hOutVars,
                   hPeerVars, cVars>>

\* peer.ID.Validate
Validate(id) == IF id = "" THEN "ErrEmptyPeerID" ELSE "nil"

NoProvider_Never(id) == FALSE
\* errors.Is(provider.ID.Validate(), peer.ErrEmptyPeerID)
NoProvider(id) == Validate(id) = "ErrEmptyPeerID"

DHTClassify ==
    /\ hpc = "classify"
    /\ hRouting # "IPNI"
    /\ IF NoProvider(hProvider)
       THEN /\ hResp' = [hResp EXCEPT !.error = "not found"]
            /\ hpc' = "write"
       ELSE /\ hpc' = "closepeer"
            /\ UNCHANGED hResp
    /\ UNCHANGED <<schedulerVars, serverVars, hReqVars, hCtxDone, hClockVars, hLookupVars, hOutVars,
                   hPeerVars, cVars>>

HostCall(op) == [op |-> op, peer |-> hProvider]

\* s.host.Network().ClosePeer(provider.ID)
ClosePeer ==
    /\ hpc = "closepeer"
    /\ hConns' = hConns \ {hProvider}
    /\ hCalls' = hCalls \cup {HostCall("ClosePeer")}
    /\ hpc' = "removepeer"
    /\ UNCHANGED <<schedulerVars, serverVars, hReqVars, hCtxDone, hClockVars, hLookupVars, hResp,
                   hOutVars, hPeerstore, hAddrs, hEnv, cVars>>

\* s.host.Peerstore().RemovePeer(provider.ID)
RemovePeer ==
    /\ hpc = "removepeer"
    /\ hPeerstore' = hPeerstore \ {hProvider}
    /\ hCalls' = hCalls \cup {HostCall("RemovePeer")}
    /\ hpc' = "clearaddrs"
    /\ UNCHANGED <<schedulerVars, serverVars, hReqVars, hCtxDone, hClockVars, hLookupVars, hResp,
                   hOutVars, hConns, hAddrs, hEnv, cVars>>

\* s.host.Peerstore().ClearAddrs(provider.ID)
ClearAddrs ==
    /\ hpc = "clearaddrs"
    /\ hAddrs' = hAddrs \ {hProvider}
    /\ hCalls' = hCalls \cup {HostCall("ClearAddrs")}
    /\ hpc' = "write"
    /\ UNCHANGED <<schedulerVars, serverVars, hReqVars, hCtxDone, hClockVars, hLookupVars, hResp,
                   hOutVars, hConns, hPeerstore, hEnv, cVars>>

\* data, err = json.Marshal(resp) cannot fail for a struct of strings and
\* integers. rw.Write(data) sends the status line 200 with the first byte; when
\* it fails, the second Write fails alike and WriteHeader(500) comes too late.
WriteResponse ==
    /\ hpc = "write"
    /\ \E ok \in BOOLEAN :
        IF ok THEN /\ hStatus' = WriteHeader(hStatus, 200)
                   /\ hBody' = "json"
              ELSE /\ hStatus' = WriteHeader(WriteHeader(hStatus, 200), 500)
                   /\ hBody' = "broken"
    /\ hpc' = "done"
    /\ UNCHANGED <<schedulerVars, serverVars, hReqVars, hCtxDone, hClockVars, hLookupVars, hResp,
                   hPeerVars, cVars>>

\* Client.Retrieve, lines 128-143: client.Do, io.ReadAll and json.Unmarshal may
\* each fail; the status code is not looked at.
ClientReturn ==
    /\ hpc = "done"
    /\ \E doOk \in BOOLEAN :
        /\ cRet' = IF ~doOk THEN "post retrieval request"
                   ELSE IF hBody = "broken" THEN "read retrieval response"
                   ELSE IF hBody = "none" THEN "unmarshal retrieval response"
                   ELSE "response"
        /\ cResp' = IF doOk /\ hBody = "json" THEN hResp ELSE NoAnswer
    /\ hpc' = "returned"
    /\ UNCHANGED <<schedulerVars, serverVars, hReqVars, hCtxDone, hClockVars, hLookupVars, hResp,
                   hOutVars, hPeerVars>>

NextRetrieve ==
    \/ HandlerRequest
    \/ ReadBody
    \/ UnmarshalRequest
    \/ DecodeCid
    \/ StartLookup
    \/ Tick
    \/ RequestCtxDone
    \/ \E p \in Peers : DHTContact(p)
    \/ IndexerLookupReturn
    \/ IndexerClassify
    \/ FindProvidersReturn
    \/ DHTClassify
    \/ ClosePeer
    \/ RemovePeer
    \/ ClearAddrs
    \/ WriteResponse
    \/ ClientReturn

SpecRetrieve == InitRetrieve /\ [][NextRetrieve]_vars

\* ---- properties of the retrieve handler ----

\* The lookup of the request has returned and its outcome is in resp.
Classified == hpc \in {"write", "done", "returned"} /\ hLookup # "none"
\* The handler is past the point where it writes the response.
ResponseWritten == hpc \in {"done", "returned"} /\ hLookup # "none"
HostPeers == [conns |-> hConns, peerstore |-> hPeerstore, addrs |-> hAddrs]

\* C14: Indexer strategy. Whatever the index lookup returned, the response
\* carries the content id and the time measured around the lookup (>= 0); a
\* failed lookup puts the failure's text in the error field, an empty result
\* set puts "not found" there, a non-empty one leaves it empty; the handler
\* sends no status but 200 for any of them, and what Client.Retrieve hands back
\* after an intact round trip is this response, with a nil error.
C14_IndexerOutcomes ==
    (hRouting = "IPNI" /\ Classified) =>
        /\ hResp.cid = hCid
        /\ hResp.duration = hWaited
        /\ hResp.duration >= 0
        /\ hLookup = "error" => (hResp.error = hLookupErr /\ hLookupErr # "")
        /\ hLookup = "empty" => hResp.error = "not found"
        /\ hLookup = "results" => hResp.error = ""
        /\ hStatus \in {0, 200}
        /\ ResponseWritten => hStatus = 200
        /\ cRet = "response" => (cResp = hResp /\ hBody = "json")
        /\ (hpc = "returned" /\ hBody = "json") =>
                cRet \in {"response", "post retrieval request"}

C14_Witness ==
    /\ hRouting = "IPNI"
    /\ hLookup = "error"
    /\ hCtxDone
    /\ cRet = "response"
    /\ cResp.error = "context deadline exceeded"
    /\ cResp.duration = MaxElapsed - 1
    /\ hStart = 1

\* C15: DHT strategy. An empty provider identity (the channel may have been
\* closed by the end of the caller's deadline) gives error "not found", and the
\* handler makes no call on the host's connections, peerstore or address book,
\* which stay as the lookup left them. A valid provider gives an empty error
\* field, and by the time the response is written the handler has called
\* ClosePeer, RemovePeer and ClearAddrs for that provider and for no other
\* peer. The Indexer strategy makes none of these calls.
C15_DHTOutcomes ==
    /\ hRouting = "IPNI" => (hCalls = {} /\ HostPeers = NoPeers /\ hEnv = NoPeers)
    /\ \A call \in hCalls : call.peer = hProvider /\ hProvider # ""
    /\ hStatus # 0 => hpc \in {"done", "returned"}
    /\ (hRouting # "IPNI" /\ hLookup # "none" /\ hpc # "classify") =>
        /\ hResp.duration = hWaited
        /\ hResp.duration >= 0
        /\ hProvider = "" =>
            /\ hResp.error = "not found"
            /\ hCalls = {}
            /\ HostPeers = hEnv
            /\ hpc \in {"write", "done", "returned"}
        /\ hProvider # "" =>
            /\ hResp.error = ""
            /\ hpc \in {"closepeer", "removepeer", "clearaddrs", "write", "done", "returned"}
            /\ Classified =>
                /\ hCalls = {[op |-> o, peer |-> hProvider] :
                                o \in {"ClosePeer", "RemovePeer", "ClearAddrs"}}
                /\ hConns = hEnv.conns \ {hProvider}
                /\ hPeerstore = hEnv.peerstore \ {hProvider}
                /\ hAddrs = hEnv.addrs \ {hProvider}
        /\ ResponseWritten => hStatus = 200

C15_Witness ==
    /\ hRouting = "DHT"
    /\ hProvider = "p1"
    /\ hEnv.conns = Peers
    /\ hConns = {"p2"}
    /\ hAddrs = {"p2"}
    /\ hpc = "returned"
    /\ cRet = "response"
    /\ cResp.error = ""

C15_WitnessNotFound ==
    /\ hRouting = "DHT"
    /\ hProvider = ""
    /\ hCtxDone
    /\ hConns = Peers
    /\ cRet = "response"
    /\ cResp.error = "not found"

\* ---- the agent server (Server.ListenAndServe, Server.Shutdown) ----
\* Source: src/pkg/db/migrations/000003_create_retrievals_table.up.sql, which
\* holds server.go from line 21 on.

lsVars  == <<lsPc, server, serverShut, doneCh>>
hbVars  == <<hbPc, tickReady, ticks, hbCalls, hbLate, hbAfterOffline>>
sdVars  == <<sdPc, task1, task2, sdRet, sdResult, offlineCalls, offlineFailed, cancelled>>
ctxVars == <<lsCtxDone, sdCtxDone>>

\* One constructed Server; the scheduler and the retrieve handler are idle.
InitServer ==
    /\ Init
    /\ dryRun
    /\ fleetSize = 1

\* tcpListener, err := net.Listen(...); on success the heartbeat goroutine is
\* started, on failure ListenAndServe returns "listen tcp".
Listen ==
    /\ lsPc = "idle"
    /\ \E ok \in BOOLEAN :
        IF ok THEN lsPc' = "setup" /\ hbPc' = "sleep"
              ELSE lsPc' = "listen tcp" /\ UNCHANGED hbPc
    /\ UNCHANGED <<schedulerVars, handlerVars, server, serverShut, doneCh, tickReady,
                   ticks, hbCalls, hbLate, hbAfterOffline, sdVars, ctxVars>>

\* s.server = &http.Server{...}; defer close(s.done); s.server.Serve is entered.
\* The write of s.server is not synchronised with the read in Shutdown: the
\* read sees nil or the server, as the two steps happen to be ordered.
AssignServer ==
    /\ lsPc = "setup"
    /\ server' = TRUE
    /\ lsPc' = "serving"
    /\ UNCHANGED <<schedulerVars, handlerVars, serverShut, doneCh, hbVars, sdVars, ctxVars>>

\* s.server.Serve returns: http.ErrServerClosed once the server was shut down
\* (ListenAndServe returns nil), another error when accepting fails. The
\* deferred close(s.done) runs in both cases.
ServeReturn ==
    /\ lsPc = "serving"
    /\ \E failed \in BOOLEAN :
        /\ ~failed => serverShut
        /\ lsPc' = IF failed THEN "returned error" ELSE "returned nil"
    /\ doneCh' = TRUE
    /\ UNCHANGED <<schedulerVars, handlerVars, server, serverShut, hbVars, sdVars, ctxVars>>

\* The context given to ListenAndServe ends.
ListenCtxDone ==
    /\ ~lsCtxDone
    /\ lsCtxDone' = TRUE
    /\ UNCHANGED <<schedulerVars, handlerVars, lsVars, hbVars, sdVars, sdCtxDone>>

\* The context given to Shutdown ends.
ShutdownCtxDone ==
    /\ ~sdCtxDone
    /\ sdPc # "returned"
    /\ sdCtxDone' = TRUE
    /\ UNCHANGED <<schedulerVars, handlerVars, lsVars, hbVars, sdVars, lsCtxDone>>

\* s.dbc.UpdateHeartbeat(ctx, s.dbNode): the error is logged, nothing else.
UpdateHeartbeat ==
    /\ hbCalls' = hbCalls + 1
    /\ hbLate' = (hbLate \/ doneCh \/ lsCtxDone)
    /\ hbAfterOffline' = (hbAfterOffline \/ offlineCalls > 0)

\* time.Sleep(s.conf.StartupDelay) is over; the first UpdateHeartbeat follows
\* without a look at s.done or ctx. Then the ticker is created.
HeartbeatFirst ==
    /\ hbPc = "sleep"
    /\ UpdateHeartbeat
    /\ hbPc' = "select"
    /\ UNCHANGED <<schedulerVars, handlerVars, lsVars, tickReady, ticks, sdVars, ctxVars>>

\* A minute has passed: the ticker puts a tick into ticker.C (capacity one).
TickerFires ==
    /\ hbPc \in {"select", "beat"}
    /\ ~tickReady
    /\ ticks < MaxTicks
    /\ tickReady' = TRUE
    /\ ticks' = ticks + 1
    /\ UNCHANGED <<schedulerVars, handlerVars, lsVars, hbPc, hbCalls, hbLate,
                   hbAfterOffline, sdVars, ctxVars>>

\* The cases of the heartbeat select that can proceed; Go takes any of them.
HeartbeatReady ==
    (IF tickReady THEN {"tick"} ELSE {})
        \cup (IF doneCh THEN {"done"} ELSE {})
        \cup (IF lsCtxDone THEN {"ctx"} ELSE {})

\* select { case <-ticker.C: case <-s.done: return case <-ctx.Done(): return }
HeartbeatSelect ==
    /\ hbPc = "select"
    /\ \E case \in HeartbeatReady :
        IF case = "tick"
        THEN /\ tickReady' = FALSE
             /\ hbPc' = "beat"
        ELSE /\ hbPc' = "exit"
             /\ UNCHANGED tickReady
    /\ UNCHANGED <<schedulerVars, handlerVars, lsVars, ticks, hbCalls, hbLate,
                   hbAfterOffline, sdVars, ctxVars>>

\* The UpdateHeartbeat of the loop body, after a tick was taken.
HeartbeatBeat ==
    /\ hbPc = "beat"
    /\ UpdateHeartbeat
    /\ hbPc' = "select"
    /\ UNCHANGED <<schedulerVars, handlerVars, lsVars, tickReady, ticks, sdVars, ctxVars>>

\* Shutdown is called: the deferred function is registered, StopNotify, both
\* errgroup tasks are started, s.cancel().
ShutdownStart ==
    /\ sdPc = "idle"
    /\ sdPc' = "wait"
    /\ task1' = "ready"
    /\ task2' = "ready"
    /\ cancelled' = TRUE
    /\ UNCHANGED <<schedulerVars, handlerVars, lsVars, hbVars, sdRet, sdResult,
                   offlineCalls, offlineFailed, ctxVars>>

\* if s.server == nil { return nil }; otherwise s.server.Shutdown(ctx) is
\* called, which closes the listeners and lets Serve return.
Task1Check ==
    /\ task1 = "ready"
    /\ IF server THEN task1' = "stopping" /\ serverShut' = TRUE
                 ELSE task1' = "ok" /\ UNCHANGED serverShut
    /\ UNCHANGED <<schedulerVars, handlerVars, lsPc, server, doneCh, hbVars, sdPc, task2,
                   sdRet, sdResult, offlineCalls, offlineFailed, cancelled, ctxVars>>

\* s.server.Shutdown(ctx) returns: nil once the connections are idle, ctx.Err()
\* when ctx ends first, or the error of closing a listener.
Task1Return ==
    /\ task1 = "stopping"
    /\ \E out \in {"ok", "error"} : task1' = out
    /\ UNCHANGED <<schedulerVars, handlerVars, lsVars, hbVars, sdPc, task2, sdRet,
                   sdResult, offlineCalls, offlineFailed, cancelled, ctxVars>>

\* return s.host.Close()
Task2Close ==
    /\ task2 = "ready"
    /\ \E out \in {"ok", "error"} : task2' = out
    /\ UNCHANGED <<schedulerVars, handlerVars, lsVars, hbVars, sdPc, task1, sdRet,
                   sdResult, offlineCalls, offlineFailed, cancelled, ctxVars>>

\* if err := errg.Wait(); err != nil { return fmt.Errorf("shutting down: ...") }
ShutdownWait ==
    /\ sdPc = "wait"
    /\ task1 \in {"ok", "error"}
    /\ task2 \in {"ok", "error"}
    /\ IF task1 = "error" \/ task2 = "error"
       THEN sdRet' = "shutting down" /\ sdPc' = "deferred"
       ELSE sdPc' = "select" /\ UNCHANGED sdRet
    /\ UNCHANGED <<schedulerVars, handlerVars, lsVars, hbVars, task1, task2, sdResult,
                   offlineCalls, offlineFailed, cancelled, ctxVars>>

\* The cases of Shutdown's select that can proceed.
ShutdownReady ==
    (IF doneCh THEN {"nil"} ELSE {}) \cup (IF sdCtxDone THEN {"ctx error"} ELSE {})

\* select { case <-s.done: return nil case <-ctx.Done(): return ctx.Err() }
ShutdownSelect ==
    /\ sdPc = "select"
    /\ \E ret \in ShutdownReady : sdRet' = ret
    /\ sdPc' = "deferred"
    /\ UNCHANGED <<schedulerVars, handlerVars, lsVars, hbVars, task1, task2, sdResult,
                   offlineCalls, offlineFailed, cancelled, ctxVars>>

DeferredResult_FailureWins(ret, ok) == IF ok THEN ret ELSE "update offline since"
\* The deferred function only logs the error of UpdateOfflineSince: Shutdown
\* has no named result it could change.
DeferredResult(ret, ok) == ret

\* The deferred s.dbc.UpdateOfflineSince(ctx, s.dbNode) runs, then the caller
\* receives the value of the return statement. The call is made under
\* Shutdown's ctx and fails when that is done.
ShutdownDeferred ==
    /\ sdPc = "deferred"
    /\ offlineCalls' = offlineCalls + 1
    /\ \E ok \in BOOLEAN :
        /\ ok => ~sdCtxDone
        /\ offlineFailed' = ~ok
        /\ sdResult' = DeferredResult(sdRet, ok)
    /\ sdPc' = "returned"
    /\ UNCHANGED <<schedulerVars, handlerVars, lsVars, hbVars, task1, task2, sdRet,
                   cancelled, ctxVars>>

NextServer ==
    \/ Listen
    \/ AssignServer
    \/ ServeReturn
    \/ ListenCtxDone
    \/ ShutdownCtxDone
    \/ HeartbeatFirst
    \/ TickerFires
    \/ HeartbeatSelect
    \/ HeartbeatBeat
    \/ ShutdownStart
    \/ Task1Check
    \/ Task1Return
    \/ Task2Close
    \/ ShutdownWait
    \/ ShutdownSelect
    \/ ShutdownDeferred

\* Every goroutine of Shutdown is scheduled and the calls it makes return.
ShutdownFairness ==
    /\ WF_vars(Task1Check)
    /\ WF_vars(Task1Return)
    /\ WF_vars(Task2Close)
    /\ WF_vars(ShutdownWait)
    /\ WF_vars(ShutdownSelect)
    /\ WF_vars(ShutdownDeferred)

SpecServer == InitServer /\ [][NextServer]_vars /\ ShutdownFairness

\* ---- properties of the agent server ----

\* ListenAndServe was not called, or returned "listen tcp" without serving.
NeverServed == lsPc \in {"idle", "listen tcp"}
TasksOk == task1 = "ok" /\ task2 = "ok"

\* C19 (as claimed): Shutdown returns nil only with the done signal closed;
\* when ListenAndServe never served, it returns only once its context has
\* ended, with that context's error; UpdateOfflineSince is called exactly once
\* by the time it returns.
C19_ShutdownAsClaimed ==
    sdPc = "returned" =>
        /\ sdResult = "nil" => doneCh
        /\ NeverServed => (sdCtxDone /\ sdResult = "ctx error")
        /\ offlineCalls = 1

\* What Shutdown hands to its caller, and when.
ShutdownResultSound ==
    /\ sdPc = "returned" <=> sdResult # "none"
    /\ offlineCalls = (IF sdPc = "returned" THEN 1 ELSE 0)
    /\ sdPc = "returned" => sdResult = sdRet
    /\ sdRet = "nil" => (doneCh /\ lsPc \in {"returned nil", "returned error"} /\ TasksOk)
    /\ sdRet = "ctx error" => (sdCtxDone /\ TasksOk)
    /\ sdRet = "shutting down" => (task1 = "error" \/ task2 = "error")
    /\ sdRet \in {"none", "nil", "ctx error", "shutting down"}
    /\ (sdPc = "returned" /\ NeverServed) =>
            /\ ~doneCh
            /\ sdResult # "nil"
            /\ sdResult = "ctx error" => sdCtxDone
            /\ sdResult = "shutting down" => (task1 = "ok" /\ task2 = "error")

\* C19 (amended): Shutdown returns nil only after the serve loop has exited and
\* closed the done signal. When ListenAndServe never served, the done signal
\* stays open and Shutdown never returns nil: it returns the "shutting down"
\* error as soon as closing the p2p host has failed, and otherwise only when
\* its context has ended, with that context's error. UpdateOfflineSince is
\* called exactly once on every return path, after the result is fixed, and
\* its failure does not change the result. Once Shutdown's context has ended
\* or the done signal is closed, a Shutdown that was called returns.
C19_Shutdown ==
    /\ []ShutdownResultSound
    /\ (sdPc # "idle" /\ (sdCtxDone \/ doneCh)) ~> (sdPc = "returned")

C19_Witness ==
    /\ sdPc = "returned"
    /\ NeverServed
    /\ ~sdCtxDone
    /\ sdResult = "shutting down"
    /\ offlineCalls = 1
    /\ offlineFailed

\* C20 (as claimed): no UpdateHeartbeat call is issued with the done signal
\* closed or the context of ListenAndServe cancelled, and none is issued after
\* Shutdown's UpdateOfflineSince.
C20_NoHeartbeatAfterStop ==
    /\ ~hbLate
    /\ ~hbAfterOffline
====
